---- MODULE Spec2Model ----
(***************************************************************************)
(* Model of the MCQ generator's server side: the process-pdf route (POST   *)
(* in synchronous and polling mode, the background runner                  *)
(* processPdfInBackground, the GET status endpoint) and the text cleaning  *)
(* and JSON parsing both paths apply to the model's answer.                *)
(*                                                                         *)
(* Texts are sequences of tokens.  "FENCE" is a run of three backticks,    *)
(* "json" the language tag, "NL" a newline, "SP" a blank; an object        *)
(* literal is one token, and so is the literal null.  An optional value (a field that may be           *)
(* undefined) is a sequence of length 0 or 1.                              *)
(***************************************************************************)
EXTENDS Integers, Sequences, FiniteSets, TLC

\* ------------------------------------------------------------- bounds
MaxReq == 2
MaxTime == 2
MaxRecords == 2
MaxElapsed == 2
MaxRetries == 4
MaxInFlight == 1

Requests == 1..MaxReq

\* ------------------------------------------------------------- tokens
Questions == {"q1", "q2"}
Required == {"question", "options", "correctAnswer", "explanation"}
Partial == {"qNoQuestion", "qNoOptions", "qNoAnswer", "qNoExplanation"}
ObjectTokens == Questions \cup Partial
Whitespace == {"NL", "SP"}

\* the fields an object literal carries (interface MCQ)
Fields(tok) ==
  CASE tok = "qNoQuestion" -> Required \ {"question"}
    [] tok = "qNoOptions" -> Required \ {"options"}
    [] tok = "qNoAnswer" -> Required \ {"correctAnswer"}
    [] tok = "qNoExplanation" -> Required \ {"explanation"}
    [] OTHER -> Required

\* ------------------------------------------------------------- JSON values
Arr(items) == [kind |-> "array", items |-> items]
Obj(tok) == [kind |-> "object", items |-> <<tok>>]
EmptyArr == Arr(<<>>)
\* the value of the literal null
Null == [kind |-> "null", items |-> <<>>]

Thrown == [ok |-> FALSE, val |-> EmptyArr]
Parsed(v) == [ok |-> TRUE, val |-> v]

\* JSON.stringify of an array of object literals
RECURSIVE Join(_)
Join(items) ==
  IF items = <<>> THEN <<>>
  ELSE IF Len(items) = 1 THEN <<items[1]>>
  ELSE <<items[1], ",">> \o Join(Tail(items))

Stringify(v) ==
  IF v.kind = "array" THEN <<"[">> \o Join(v.items) \o <<"]">> ELSE v.items

\* JSON.stringify(v, null, 2): one element per line, indented
RECURSIVE JoinLines(_)
JoinLines(items) ==
  IF items = <<>> THEN <<>>
  ELSE IF Len(items) = 1 THEN <<"NL", "SP", items[1], "NL">>
  ELSE <<"NL", "SP", items[1], ",">> \o JoinLines(Tail(items))

StringifyPretty(v) ==
  IF v.kind = "array" THEN <<"[">> \o JoinLines(v.items) \o <<"]">>
  ELSE v.items

\* String.prototype.replace(/```json\n|\n```/g, "")
RECURSIVE StripFences(_)
StripFences(s) ==
  IF s = <<>> THEN <<>>
  ELSE IF Len(s) >= 3 /\ SubSeq(s, 1, 3) = <<"FENCE", "json", "NL">>
    THEN StripFences(SubSeq(s, 4, Len(s)))
  ELSE IF Len(s) >= 2 /\ SubSeq(s, 1, 2) = <<"NL", "FENCE">>
    THEN StripFences(SubSeq(s, 3, Len(s)))
  ELSE <<Head(s)>> \o StripFences(Tail(s))

\* String.prototype.trim()
RECURSIVE TrimLeft(_)
TrimLeft(s) ==
  IF s # <<>> /\ Head(s) \in Whitespace THEN TrimLeft(Tail(s)) ELSE s

RECURSIVE TrimRight(_)
TrimRight(s) ==
  IF s # <<>> /\ s[Len(s)] \in Whitespace
    THEN TrimRight(SubSeq(s, 1, Len(s) - 1)) ELSE s

Trim(s) == TrimRight(TrimLeft(s))

\* variant: the fences are left in the text
CleanTextUnstripped(responseText) == Trim(responseText)

CleanText(responseText) == Trim(StripFences(responseText))

\* JSON.parse: white space between tokens is skipped; the text is one
\* object literal, the literal null, or a bracketed, comma-separated list of
\* object literals
RECURSIVE SkipWs(_)
SkipWs(s) ==
  IF s = <<>> THEN <<>>
  ELSE IF Head(s) \in Whitespace THEN SkipWs(Tail(s))
  ELSE <<Head(s)>> \o SkipWs(Tail(s))

IsElements(inner) ==
  /\ Len(inner) % 2 = 1
  /\ \A i \in 1..Len(inner) :
       IF i % 2 = 1 THEN inner[i] \in ObjectTokens ELSE inner[i] = ","

ElementsOf(inner) == [i \in 1..((Len(inner) + 1) \div 2) |-> inner[2 * i - 1]]

JSONParse(text) ==
  LET t == SkipWs(text)
      n == Len(t)
  IN  IF n = 1 /\ t[1] \in ObjectTokens THEN Parsed(Obj(t[1]))
      ELSE IF t = <<"null">> THEN Parsed(Null)
      ELSE IF n >= 2 /\ t[1] = "[" /\ t[n] = "]"
        THEN LET inner == SubSeq(t, 2, n - 1)
             IN  IF inner = <<>> THEN Parsed(EmptyArr)
                 ELSE IF IsElements(inner) THEN Parsed(Arr(ElementsOf(inner)))
                 ELSE Thrown
      ELSE Thrown

\* Array.isArray(mcqs) && mcqs.length !== 0
IsNonEmptyArray(v) == v.kind = "array" /\ v.items # <<>>

\* ------------------------------------------------------------- inputs
\* what an awaited call rejects with: an Error (with its message), or a
\* thrown value that is no Error and carries no message
Faults ==
  { [isError |-> TRUE, message |-> "quota exceeded"],
    [isError |-> TRUE, message |-> ""],
    [isError |-> FALSE, message |-> ""] }
NoFault == [isError |-> FALSE, message |-> "none"]

JsonFence(body) == <<"FENCE", "json", "NL">> \o body \o <<"NL", "FENCE">>
BareFence(body) == <<"FENCE", "NL">> \o body \o <<"NL", "FENCE">>

SeqsUpTo(S, n) == UNION {[1..k -> S] : k \in 1..n}
WellFormedSeqs == SeqsUpTo(Questions, MaxRecords)
WellFormedTexts == {Stringify(Arr(s)) : s \in WellFormedSeqs}
MalformedValues ==
  {EmptyArr, Obj("q1")} \cup {Arr(<<"q1", p>>) : p \in Partial}
InvalidTexts == {<<>>, <<"Sorry">>, <<"[", "q1">>}

\* the texts the parser is exercised on
ParserTexts ==
  WellFormedTexts
    \cup {JsonFence(t) : t \in WellFormedTexts}
    \cup {BareFence(t) : t \in WellFormedTexts}
    \cup {Stringify(v) : v \in MalformedValues}
    \cup InvalidTexts

\* the texts the generation service answers with
AdapterTexts ==
  { Stringify(Arr(<<"q1", "q2">>)),
    JsonFence(Stringify(Arr(<<"q2", "q1">>))),
    BareFence(Stringify(Arr(<<"q1">>))),
    Stringify(EmptyArr),
    Stringify(Obj("q1")),
    Stringify(Arr(<<"q1", "qNoExplanation">>)),
    <<"null">>,
    <<>> }

\* cleaning then parsing a response text (lines 138-142 and 239-242),
\* tabulated once over the texts the service answers with
ParsedResponses == [t \in AdapterTexts |-> JSONParse(CleanText(t))]
ParseResponse(responseText) == ParsedResponses[responseText]

\* what generateContent resolves to: a response whose text() returns the
\* text, or whose text() throws
TextResult(t) == [fault |-> <<>>, text |-> t]
BlockedResult(f) == [fault |-> <<f>>, text |-> <<>>]
NoResult == [fault |-> <<>>, text |-> <<>>]
Blocked == [isError |-> TRUE, message |-> "response was blocked"]
Results == {TextResult(t) : t \in AdapterTexts} \cup {BlockedResult(Blocked)}

\* the multipart form of a submission
Forms ==
  [file : {<<>>, <<"pdf">>},
   apiKey : {<<>>, <<"">>, <<"key">>},
   withPolling : {<<>>, <<"true">>}]
NoForm == [file |-> <<>>, apiKey |-> <<>>, withPolling |-> <<>>]

\* ------------------------------------------------------------- responses
Json(code, body, msg) == [code |-> code, body |-> body, msg |-> msg]
NoResponse == Json(0, "", "")
NoFileUploaded == Json(400, "error", "No file uploaded")
ApiKeyRequired == Json(400, "error", "API key is required")
\* variant: the busy answer is a conflict error
AlreadyProcessingConflict ==
  Json(409, "error", "Another PDF is currently being processed")

AlreadyProcessing ==
  Json(200, "processing", "Another PDF is currently being processed")
ProcessingStarted == Json(200, "processing", "PDF processing started")
InvalidMcqs == Json(500, "error", "Failed to generate valid MCQs from the PDF")
WrongFormat == Json(500, "error", "Generated MCQs are not in the correct format")
Success == Json(200, "success", "")
FailedToProcess == Json(500, "error", "Failed to process PDF")

\* ------------------------------------------------------------- registry
IdleState ==
  [status |-> "idle", mcqs |-> EmptyArr, error |-> <<>>,
   startTime |-> <<>>, progress |-> <<>>]

\* variant: the reset forgets the start time
ProcessingRecordNoTime(t) ==
  [status |-> "processing", mcqs |-> EmptyArr, error |-> <<>>,
   startTime |-> <<>>, progress |-> <<"Starting PDF processing...">>]

ProcessingRecord(t) ==
  [status |-> "processing", mcqs |-> EmptyArr, error |-> <<>>,
   startTime |-> <<t>>, progress |-> <<"Starting PDF processing...">>]

\* variant: the completion is merged into the old state and keeps its startTime
CompletedRecordMerged(old, mcqs) ==
  [old EXCEPT !.status = "completed", !.mcqs = mcqs, !.progress = <<>>]

CompletedRecord(old, mcqs) ==
  [status |-> "completed", mcqs |-> mcqs, error |-> <<>>,
   startTime |-> <<>>, progress |-> <<>>]

\* variant: the failure is merged into the old state, not written over it
FailedRecordMerged(old, message) ==
  [old EXCEPT !.status = "failed", !.error = <<message>>]

FailedRecord(old, message) ==
  [status |-> "failed", mcqs |-> EmptyArr, error |-> <<message>>,
   startTime |-> <<>>, progress |-> <<>>]

SetProgress(ps, label) == [ps EXCEPT !.progress = <<label>>]

\* variant: the exclusivity check is missing
IsProcessingUnchecked(ps) == FALSE

\* global.processingState.status === "processing"
IsProcessing(ps) == ps.status = "processing"

\* error instanceof Error ? error.message : "Unknown error during processing"
ErrorMessage(f) ==
  IF f.isError THEN f.message ELSE "Unknown error during processing"

ParseFailure == "Failed to parse AI response into valid MCQs"

\* ------------------------------------------------------------- state
\* req[r].seen and .epoch record, for a polling-mode submission, the registry
\* status its handler read and how many runs had ended by then.
VARIABLES
  processingState,  \* global.processingState
  globalMcqs,       \* global.mcqs, undefined until a generation stores it
  req,              \* the POST invocations: position, form, result, response
  runner,           \* the processPdfInBackground invocations
  now,              \* Date.now()
  finished,         \* how many background runs have ended
  lastRun,          \* the most recently accepted job and how its run ended
  ended,            \* when kept: what each ended run was given and what it left
  pValue,           \* parser harness: the value the service serializes
  pLayout,          \* parser harness: "compact" or "pretty"
  pWrap,            \* parser harness: "none", "json" or "bare" fence
  pText,            \* parser harness: the text so far
  pOut,             \* parser harness: what JSON.parse gave
  pPhase,           \* parser harness: "value", "text", "cleaned", "parsed"
  mounted,          \* PDFUploadWithPolling is on the page
  processing,       \* useState(false)
  progress,         \* useState("Starting...")
  error,            \* useState<string | null>(null)
  elapsedTime,      \* useState(0)
  retryCount,       \* useState(0)
  pollInterval,     \* useRef<NodeJS.Timeout | null>(null)
  timers,           \* the intervals set and not cleared
  quizTimer,        \* a setTimeout(() => router.push("/quiz"), 1000) is pending
  sub,              \* the handleSubmit invocations and what they closed over
  poll,             \* the interval callbacks: position and response body
  quiz              \* MCQQuiz: fetchMCQs' position and the component's state

server ==
  <<processingState, globalMcqs, req, runner, now, finished, lastRun, ended>>
harness == <<pValue, pLayout, pWrap, pText, pOut, pPhase>>
client ==
  <<mounted, processing, progress, error, elapsedTime, retryCount,
    pollInterval, timers, quizTimer, sub, poll>>
vars == <<server, harness, client, quiz>>

IdleReq ==
  [pc |-> "idle", form |-> NoForm, result |-> NoResult, resp |-> NoResponse,
   seen |-> "", epoch |-> 0]
IdleRunner == [pc |-> "none", result |-> NoResult]
NoRun == [job |-> 0, outcome |-> "none", fault |-> NoFault]

\* the process as started; keep says whether the ended runs are recorded
StartServer(keep) ==
  /\ processingState = IdleState
  /\ globalMcqs = <<>>
  /\ req = [r \in Requests |-> IdleReq]
  /\ runner = [r \in Requests |-> IdleRunner]
  /\ now = 1
  /\ finished = 0
  /\ lastRun = NoRun
  /\ ended = [keep |-> keep, runs |-> <<>>]

InitServer == StartServer(FALSE)

HarnessIdle ==
  /\ pValue = EmptyArr
  /\ pLayout = "compact"
  /\ pWrap = "none"
  /\ pText = <<>>
  /\ pOut = Thrown
  /\ pPhase = "idle"

\* MCQQuiz is not on the page
ClosedQuiz ==
  [pc |-> "closed", mcqs |-> <<>>, currentQuestion |-> 0,
   selectedAnswers |-> <<>>, marks |-> 0]

IdleSub == [pc |-> "none", elapsedTime |-> 0, retryCount |-> 0]
IdlePoll == [pc |-> "idle", data |-> IdleState]

\* the page with the form shown and nothing submitted; e and n are the
\* values of elapsedTime and retryCount
Page(e, n) ==
  /\ quiz = ClosedQuiz
  /\ mounted = TRUE
  /\ processing = FALSE
  /\ progress = <<"Starting...">>
  /\ error = <<>>
  /\ elapsedTime = e
  /\ retryCount = n
  /\ pollInterval = <<>>
  /\ timers = {}
  /\ quizTimer = FALSE
  /\ sub = [r \in Requests |-> IdleSub]
  /\ poll = [r \in Requests |-> IdlePoll]

\* the page as first rendered
InitClient == Page(0, 0)

Init == InitServer /\ HarnessIdle /\ InitClient

Return(r, response) ==
  req' = [req EXCEPT ![r].pc = "done", ![r].form = NoForm,
                     ![r].result = NoResult, ![r].resp = response]

\* ------------------------------------------------------------- POST
\* a request arrives; the handler awaits request.formData()
Receive(r) ==
  /\ req[r].pc = "idle"
  /\ \E f \in Forms : req' = [req EXCEPT ![r].pc = "formData", ![r].form = f]
  /\ UNCHANGED <<processingState, globalMcqs, runner, now, finished, lastRun, ended, harness, client, quiz>>

\* a request arrives whose body is no form
ReceiveBadBody(r) ==
  /\ req[r].pc = "idle"
  /\ req' = [req EXCEPT ![r].pc = "badBody"]
  /\ UNCHANGED <<processingState, globalMcqs, runner, now, finished, lastRun, ended, harness, client, quiz>>

\* request.formData() rejects: the outer catch
FormDataFails(r) ==
  /\ req[r].pc = "badBody"
  /\ Return(r, FailedToProcess)
  /\ UNCHANGED <<processingState, globalMcqs, runner, now, finished, lastRun, ended, harness, client, quiz>>

NoFile(r) ==
  /\ req[r].pc = "formData"
  /\ req[r].form.file = <<>>
  /\ Return(r, NoFileUploaded)
  /\ UNCHANGED <<processingState, globalMcqs, runner, now, finished, lastRun, ended, harness, client, quiz>>

NoApiKey(r) ==
  /\ req[r].pc = "formData"
  /\ req[r].form.file # <<>>
  /\ req[r].form.apiKey \in {<<>>, <<"">>}
  /\ Return(r, ApiKeyRequired)
  /\ UNCHANGED <<processingState, globalMcqs, runner, now, finished, lastRun, ended, harness, client, quiz>>

\* variant: only a missing credential is refused, an empty one passes
ValidIfPresent(f) == f.file # <<>> /\ f.apiKey # <<>>

Valid(f) == f.file # <<>> /\ f.apiKey \notin {<<>>, <<"">>}
WithPolling(f) == f.withPolling = <<"true">>

Busy(r) ==
  /\ req[r].pc = "formData"
  /\ Valid(req[r].form) /\ WithPolling(req[r].form)
  /\ IsProcessing(processingState)
  /\ req' = [req EXCEPT ![r].pc = "done", ![r].form = NoForm,
                        ![r].resp = AlreadyProcessing,
                        ![r].seen = processingState.status,
                        ![r].epoch = finished]
  /\ UNCHANGED <<processingState, globalMcqs, runner, now, finished, lastRun, ended, harness, client, quiz>>

\* variant: the handler awaits processPdfInBackground before it answers
AcceptAwaits(r) ==
  /\ req[r].pc = "formData"
  /\ Valid(req[r].form) /\ WithPolling(req[r].form)
  /\ ~IsProcessing(processingState)
  /\ processingState' = SetProgress(ProcessingRecord(now), "Converting PDF...")
  /\ runner' = [runner EXCEPT ![r].pc = "arrayBuffer"]
  /\ lastRun' = [job |-> r, outcome |-> "running", fault |-> NoFault]
  /\ req' = [req EXCEPT ![r].pc = "awaitRun", ![r].form = NoForm]
  /\ UNCHANGED <<globalMcqs, now, finished, ended, harness, client, quiz>>

\* the registry is reset, and processPdfInBackground runs up to its first
\* await (file.arrayBuffer()) before the handler returns; the constructor
\* new GoogleGenerativeAI(apiKey) only keeps the key
Accept(r) ==
  /\ req[r].pc = "formData"
  /\ Valid(req[r].form) /\ WithPolling(req[r].form)
  /\ ~IsProcessing(processingState)
  /\ processingState' = SetProgress(ProcessingRecord(now), "Converting PDF...")
  /\ runner' = [runner EXCEPT ![r].pc = "arrayBuffer"]
  /\ lastRun' = [job |-> r, outcome |-> "running", fault |-> NoFault]
  /\ req' = [req EXCEPT ![r].pc = "done", ![r].form = NoForm,
                        ![r].resp = ProcessingStarted,
                        ![r].seen = processingState.status,
                        ![r].epoch = finished]
  /\ UNCHANGED <<globalMcqs, now, finished, ended, harness, client, quiz>>

\* synchronous mode: up to await file.arrayBuffer()
SyncStart(r) ==
  /\ req[r].pc = "formData"
  /\ Valid(req[r].form) /\ ~WithPolling(req[r].form)
  /\ req' = [req EXCEPT ![r].pc = "arrayBuffer", ![r].form = NoForm]
  /\ UNCHANGED <<processingState, globalMcqs, runner, now, finished, lastRun, ended, harness, client, quiz>>

\* up to await model.generateContent(...)
SyncConverted(r) ==
  /\ req[r].pc = "arrayBuffer"
  /\ req' = [req EXCEPT ![r].pc = "generate"]
  /\ UNCHANGED <<processingState, globalMcqs, runner, now, finished, lastRun, ended, harness, client, quiz>>

\* up to await result.response
SyncGenerated(r) ==
  /\ req[r].pc = "generate"
  /\ \E res \in Results :
       req' = [req EXCEPT ![r].pc = "response", ![r].result = res]
  /\ UNCHANGED <<processingState, globalMcqs, runner, now, finished, lastRun, ended, harness, client, quiz>>

\* file.arrayBuffer() or generateContent rejects: the outer catch
SyncRejected(r) ==
  /\ req[r].pc \in {"arrayBuffer", "generate"}
  /\ Return(r, FailedToProcess)
  /\ UNCHANGED <<processingState, globalMcqs, runner, now, finished, lastRun, ended, harness, client, quiz>>

\* response.text(), cleaning, JSON.parse, validation, store
SyncAnswer(res) ==
  IF res.fault # <<>> THEN FailedToProcess
  ELSE LET p == ParseResponse(res.text)
       IN  IF ~p.ok THEN InvalidMcqs
           ELSE IF ~IsNonEmptyArray(p.val) THEN WrongFormat
           ELSE Success

SyncFinish(r) ==
  /\ req[r].pc = "response"
  /\ Return(r, SyncAnswer(req[r].result))
  /\ globalMcqs' =
       IF SyncAnswer(req[r].result) = Success
         THEN <<ParseResponse(req[r].result.text).val>>
         ELSE globalMcqs
  /\ UNCHANGED <<processingState, runner, now, finished, lastRun, ended, harness, client, quiz>>

\* ------------------------------------------------------------- runner
\* a run ends: what the generation service gave it (a result, or the fault
\* f of a rejected call), when it was started and the registry it leaves
EndRun(r, outcome, f) ==
  /\ runner' = [runner EXCEPT ![r] = [pc |-> "done", result |-> NoResult]]
  /\ finished' = finished + 1
  /\ lastRun' = [job |-> r, outcome |-> outcome, fault |-> f]
  /\ ended' =
       IF ended.keep
         THEN [ended EXCEPT !.runs =
                 Append(@, [result |-> runner[r].result, fault |-> f,
                            started |-> processingState.startTime,
                            left |-> processingState'])]
         ELSE ended

\* file.arrayBuffer() resolved; up to await model.generateContent(...)
RunConverted(r) ==
  /\ runner[r].pc = "arrayBuffer"
  /\ processingState' = SetProgress(processingState, "Sending to AI model...")
  /\ runner' = [runner EXCEPT ![r].pc = "generate"]
  /\ UNCHANGED <<globalMcqs, req, now, finished, lastRun, ended, harness, client, quiz>>

\* generateContent resolved; up to await result.response
RunGenerated(r) ==
  /\ runner[r].pc = "generate"
  /\ processingState' =
       SetProgress(processingState, "Processing AI response...")
  /\ \E res \in Results :
       runner' = [runner EXCEPT ![r].pc = "response", ![r].result = res]
  /\ UNCHANGED <<globalMcqs, req, now, finished, lastRun, ended, harness, client, quiz>>

\* variant: a rejected call is tried again
RunRejectedRetried(r) ==
  /\ runner[r].pc \in {"arrayBuffer", "generate"}
  /\ runner' = [runner EXCEPT ![r].pc = "arrayBuffer"]
  /\ UNCHANGED <<processingState, globalMcqs, req, now, finished, lastRun,
                 ended, harness, client, quiz>>

\* file.arrayBuffer() or generateContent rejects: the outer catch
RunRejected(r) ==
  /\ runner[r].pc \in {"arrayBuffer", "generate"}
  /\ \E f \in Faults :
       /\ processingState' = FailedRecord(processingState, ErrorMessage(f))
       /\ EndRun(r, "fault", f)
  /\ UNCHANGED <<globalMcqs, req, now, harness, client, quiz>>

\* response.text() throws: the outer catch
RunBlocked(r) ==
  /\ runner[r].pc = "response"
  /\ runner[r].result.fault # <<>>
  /\ processingState' =
       FailedRecord(processingState, ErrorMessage(runner[r].result.fault[1]))
  /\ EndRun(r, "fault", runner[r].result.fault[1])
  /\ UNCHANGED <<globalMcqs, req, now, harness, client, quiz>>

\* JSON.parse throws: the inner catch
RunParseFails(r) ==
  /\ runner[r].pc = "response"
  /\ runner[r].result.fault = <<>>
  /\ ~ParseResponse(runner[r].result.text).ok
  /\ processingState' = FailedRecord(processingState, ParseFailure)
  /\ EndRun(r, "parseError", NoFault)
  /\ UNCHANGED <<globalMcqs, req, now, harness, client, quiz>>

\* JSON.parse returns: the value is stored in both globals
RunCompletes(r) ==
  /\ runner[r].pc = "response"
  /\ runner[r].result.fault = <<>>
  /\ LET p == ParseResponse(runner[r].result.text)
     IN  /\ p.ok
         /\ processingState' = CompletedRecord(processingState, p.val)
         /\ globalMcqs' = <<p.val>>
  /\ EndRun(r, "completed", NoFault)
  /\ UNCHANGED <<req, now, harness, client, quiz>>

\* ------------------------------------------------------------- GET, clock
\* variant: the body leaves the progress label out
GETWithoutProgress == [processingState EXCEPT !.progress = <<>>]

\* GET /api/process-pdf: the body is the registry as it is
GET == processingState

\* GET /api/get-mcqs: the stored result, or 404 when !global.mcqs
NoMcqsFound == [code |-> 404, error |-> "No MCQs found", mcqs |-> <<>>]
Found(v) == [code |-> 200, error |-> "", mcqs |-> <<v>>]
Falsy(v) == v.kind = "null"

GetMcqs ==
  IF globalMcqs = <<>> \/ Falsy(globalMcqs[1]) THEN NoMcqsFound
  ELSE Found(globalMcqs[1])

Tick ==
  /\ now < MaxTime
  /\ now' = now + 1
  /\ UNCHANGED <<processingState, globalMcqs, req, runner, finished, lastRun, ended, harness, client, quiz>>

Next ==
  \/ \E r \in Requests :
       \/ Receive(r) \/ ReceiveBadBody(r) \/ FormDataFails(r) \/ NoFile(r) \/ NoApiKey(r)
       \/ Busy(r) \/ Accept(r)
       \/ SyncStart(r) \/ SyncConverted(r) \/ SyncGenerated(r)
       \/ SyncRejected(r) \/ SyncFinish(r)
       \/ RunConverted(r) \/ RunGenerated(r) \/ RunRejected(r)
       \/ RunBlocked(r) \/ RunParseFails(r) \/ RunCompletes(r)
  \/ Tick

Spec == Init /\ [][Next]_vars

\* A continuation that is ready runs: once generateContent has resolved, the
\* runner resumes after await result.response and runs to its end.
RunResumes(r) == RunBlocked(r) \/ RunParseFails(r) \/ RunCompletes(r)

FairSpec == Spec /\ \A r \in Requests : WF_vars(RunResumes(r))

\* ------------------------------------------------------------- runs
\* The background jobs alone: every request is the one the polling page
\* sends, and what each run was given and left is recorded.
PollingForm == [file |-> <<"pdf">>, apiKey |-> <<"key">>, withPolling |-> <<"true">>]

\* the request of the polling page arrives
ReceivePolling(r) ==
  /\ req[r].pc = "idle"
  /\ req' = [req EXCEPT ![r].pc = "formData", ![r].form = PollingForm]
  /\ UNCHANGED <<processingState, globalMcqs, runner, now, finished, lastRun, ended, harness, client, quiz>>

InitRuns == StartServer(TRUE) /\ HarnessIdle /\ InitClient

NextRuns ==
  \/ \E r \in Requests :
       \/ ReceivePolling(r) \/ Busy(r) \/ Accept(r)
       \/ RunConverted(r) \/ RunGenerated(r) \/ RunRejected(r)
       \/ RunBlocked(r) \/ RunParseFails(r) \/ RunCompletes(r)
  \/ Tick

SpecRuns == InitRuns /\ [][NextRuns]_vars

\* file.arrayBuffer() settles: it reads the uploaded bytes and waits for
\* nothing outside the process.  Nothing makes generateContent settle: the
\* runner awaits it without a timeout.
Converts(r) ==
  \/ RunConverted(r)
  \/ runner[r].pc = "arrayBuffer" /\ RunRejected(r)

FairSpecRuns ==
  /\ SpecRuns
  /\ \A r \in Requests : WF_vars(Converts(r)) /\ WF_vars(RunResumes(r))

\* ------------------------------------------------------------- client
\* PDFUploadWithPolling of components/PDFUpload.tsx.  Submission r is the
\* POST request r; the interval it sets is timer r.  handleSubmit and the
\* interval callback read elapsedTime and retryCount from the render they
\* were created in: sub[r] keeps those values, and the state variables are
\* only written.
PollEvery == 2
WarnAfter == 180
StopAfter == 300
RetryLimit == 3

\* if (pollInterval.current) clearInterval(pollInterval.current)
ClearInterval(ts, ref) == IF ref = <<>> THEN ts ELSE ts \ {ref[1]}

\* handleSubmit, with a file and an API key, up to
\* await fetch("/api/process-pdf", {method: "POST", ...}); the requests are
\* numbered in the order they are sent
Submit(r) ==
  /\ mounted /\ ~processing
  /\ sub[r].pc = "none" /\ req[r].pc = "idle"
  /\ \A q \in Requests : q < r => sub[q].pc # "none"
  /\ error' = <<>>
  /\ processing' = TRUE
  /\ progress' = <<"Uploading PDF and starting processing...">>
  /\ sub' = [sub EXCEPT ![r] = [pc |-> "fetch", elapsedTime |-> elapsedTime,
                                retryCount |-> retryCount]]
  /\ req' = [req EXCEPT ![r].pc = "formData", ![r].form = PollingForm]
  /\ UNCHANGED <<processingState, globalMcqs, runner, now, finished, lastRun,
                 ended, harness, quiz, mounted, elapsedTime, retryCount, pollInterval,
                 timers, quizTimer, poll>>

\* the POST fails: fetch rejects, the 60 s abort fires, or a gateway answers
\* 504; the catch of handleSubmit
SubmitErrors ==
  { "Request timed out. The PDF may be too large or the server is busy." }

SubmitFails(r) ==
  /\ sub[r].pc = "fetch"
  /\ \E msg \in SubmitErrors : error' = <<msg>>
  /\ processing' = FALSE
  /\ sub' = [sub EXCEPT ![r].pc = "rejected"]
  /\ UNCHANGED <<server, harness, quiz, mounted, progress, elapsedTime, retryCount,
                 pollInterval, timers, quizTimer, poll>>

\* the POST is answered: startPolling() when data.status === "processing"
SubmitAnswered(r) ==
  /\ sub[r].pc = "fetch" /\ req[r].pc = "done"
  /\ IF req[r].resp.code = 200 /\ req[r].resp.body = "processing"
       THEN /\ sub' = [sub EXCEPT ![r].pc = "polling"]
            /\ progress' = <<"PDF uploaded. Processing started...">>
            /\ elapsedTime' = 0
            /\ retryCount' = 0
            /\ pollInterval' = <<r>>
            /\ timers' = timers \cup {r}
            /\ UNCHANGED <<error, processing>>
       ELSE /\ sub' = [sub EXCEPT ![r].pc = "failed"]
            /\ error' = <<IF req[r].resp.code = 200
                            THEN "Unexpected response from server"
                            ELSE req[r].resp.msg>>
            /\ processing' = FALSE
            /\ UNCHANGED <<progress, elapsedTime, retryCount, pollInterval, timers>>
  /\ UNCHANGED <<server, harness, quiz, mounted, quizTimer, poll>>

\* the interval fires: the callback runs up to await fetch("/api/process-pdf");
\* a timer has one callback running at a time, and MaxInFlight bounds the
\* callbacks of all timers that run together
TimerFires(t) ==
  /\ t \in timers
  /\ poll[t].pc = "idle"
  /\ Cardinality({q \in Requests : poll[q].pc # "idle"}) < MaxInFlight
  /\ poll' = [poll EXCEPT ![t].pc = "fetch"]
  /\ UNCHANGED <<server, harness, quiz, mounted, processing, progress, error,
                 elapsedTime, retryCount, pollInterval, timers, quizTimer, sub>>

\* the GET handler answers the callback's request
Status(t) ==
  /\ poll[t].pc = "fetch"
  /\ poll' = [poll EXCEPT ![t] = [pc |-> "json", data |-> GET]]
  /\ UNCHANGED <<server, harness, quiz, mounted, processing, progress, error,
                 elapsedTime, retryCount, pollInterval, timers, quizTimer, sub>>

TimedOut ==
  "Processing timed out. Please try again with a smaller PDF or break your document into smaller parts."
ServerTimeout ==
  "Server timeout error. Please try with a smaller PDF file or try again later."
Unreachable ==
  "Error checking processing status. The server might be under heavy load. Please try again later."
Retrying == "Network issue encountered. Retry attempt"

StillProcessing(n) == <<"Still processing...", n>>
TakingLonger(n) ==
  <<"Still processing...", n, "This is taking longer than expected.">>

\* the callback after await response.json(), lines 152-191
PollAnswered(t) ==
  LET data == poll[t].data
      c == sub[t]
      done == data.status \in {"completed", "failed"}
      late == c.elapsedTime > StopAfter /\ data.status = "processing"
  IN  /\ poll[t].pc = "json"
      /\ elapsedTime < MaxElapsed
      /\ poll' = [poll EXCEPT ![t] = IdlePoll]
      /\ retryCount' = IF c.retryCount > 0 THEN 0 ELSE retryCount
      /\ elapsedTime' = elapsedTime + PollEvery
      /\ progress' =
           IF data.status = "completed" THEN <<"MCQs generated successfully!">>
           ELSE IF c.elapsedTime > WarnAfter /\ data.status = "processing"
             THEN TakingLonger(c.elapsedTime)
           ELSE IF data.progress \notin {<<>>, <<"">>} THEN data.progress
           ELSE IF c.elapsedTime % 10 = 0 THEN StillProcessing(c.elapsedTime)
           ELSE progress
      /\ timers' = IF done \/ late THEN ClearInterval(timers, pollInterval)
                   ELSE timers
      /\ processing' = IF done \/ late THEN FALSE ELSE processing
      /\ quizTimer' = IF data.status = "completed" THEN TRUE ELSE quizTimer
      /\ error' =
           IF data.status = "failed"
             THEN IF data.error \in {<<>>, <<"">>}
                    THEN <<"Processing failed for unknown reasons">>
                    ELSE data.error
           ELSE IF late THEN <<TimedOut>>
           ELSE error
      /\ UNCHANGED <<server, harness, quiz, mounted, pollInterval, sub>>

\* the status query fails: fetch rejects ("network"), or the answer is not ok
\* (504, or another code, which stands for a body that is no JSON as well);
\* lines 138-150 and the catch of lines 192-221
PollFailures == {"network", "504", "500"}

PollFails(t) ==
  LET c == sub[t]
  IN  /\ poll[t].pc = "fetch"
      /\ retryCount < MaxRetries
      /\ poll' = [poll EXCEPT ![t] = IdlePoll]
      /\ \E kind \in PollFailures :
           LET counted == IF kind # "network" /\ c.retryCount > 0
                            THEN 0 ELSE retryCount
               stop == kind = "504" \/ c.retryCount >= RetryLimit
           IN  /\ retryCount' = counted + 1
               /\ timers' = IF stop THEN ClearInterval(timers, pollInterval)
                            ELSE timers
               /\ processing' = IF stop THEN FALSE ELSE processing
               /\ error' =
                    IF kind = "504" THEN <<ServerTimeout>>
                    ELSE IF stop THEN <<Unreachable>>
                    ELSE error
               /\ progress' =
                    IF stop THEN progress
                    ELSE <<Retrying, c.retryCount>>
      /\ UNCHANGED <<server, harness, quiz, mounted, elapsedTime, pollInterval,
                     quizTimer, sub>>

\* variant: cancelling also tells the server to drop the job
CancelAborts ==
  /\ mounted /\ processing
  /\ timers' = ClearInterval(timers, pollInterval)
  /\ processing' = FALSE
  /\ processingState' = IdleState
  /\ UNCHANGED <<globalMcqs, req, runner, now, finished, lastRun, ended,
                 harness, quiz, mounted, progress, error, elapsedTime,
                 retryCount, pollInterval, quizTimer, sub, poll>>

\* the Cancel Processing button
Cancel ==
  /\ mounted /\ processing
  /\ timers' = ClearInterval(timers, pollInterval)
  /\ processing' = FALSE
  /\ UNCHANGED <<server, harness, quiz, mounted, progress, error, elapsedTime,
                 retryCount, pollInterval, quizTimer, sub, poll>>

\* the pending router.push("/quiz") runs: the page changes, the component
\* leaves it and the cleanup of the effect of lines 120-127 runs
PushQuiz ==
  /\ quizTimer
  /\ quizTimer' = FALSE
  /\ mounted' = FALSE
  /\ timers' = IF mounted THEN ClearInterval(timers, pollInterval) ELSE timers
  /\ UNCHANGED <<server, harness, quiz, processing, progress, error, elapsedTime,
                 retryCount, pollInterval, sub, poll>>

NextClient ==
  \/ \E r \in Requests :
       \/ Submit(r) \/ SubmitFails(r) \/ SubmitAnswered(r)
       \/ Busy(r) \/ Accept(r)
       \/ RunConverted(r) \/ RunGenerated(r) \/ RunRejected(r)
       \/ RunBlocked(r) \/ RunParseFails(r) \/ RunCompletes(r)
       \/ TimerFires(r) \/ Status(r) \/ PollAnswered(r) \/ PollFails(r)
  \/ Cancel \/ PushQuiz

\* The form is shown again when a polling session has ended, with
\* elapsedTime and retryCount as that session left them: startPolling resets
\* them (lines 130-131) only after the next submission has been answered.
\* A first session leaves elapsedTime at twice the number of its answered
\* status queries (line 155) and retryCount at the number of its failed ones
\* (line 196); none of its callbacks stops on either (they read 0 for both).
\* The sessions start from the page as first rendered, or from the page as
\* left by a session of 151 answered and 3 failed queries; the server is as
\* started in both (a registry left completed or failed is written over by
\* the next acceptance, lines 63-68).
EarlierSessions ==
  { <<0, 0>>,
    <<StopAfter + PollEvery, RetryLimit>> }

InitSession ==
  /\ InitServer
  /\ HarnessIdle
  /\ \E e \in EarlierSessions : Page(e[1], e[2])

SpecClient == InitSession /\ [][NextClient]_vars

\* ------------------------------------------------------------- parser harness
\* The cleaning and parsing of lines 138-142 and 239-242, applied to the
\* serialization of every value of the bounded sets, plain or fenced.
ParserValues == {Arr(s) : s \in WellFormedSeqs} \cup MalformedValues

InitParser ==
  /\ InitServer
  /\ InitClient
  /\ pValue \in ParserValues
  /\ pLayout \in {"compact", "pretty"}
  /\ pWrap \in {"none", "json", "bare"}
  /\ pText = <<>>
  /\ pOut = Thrown
  /\ pPhase = "value"

Wrapped(wrap, body) ==
  CASE wrap = "json" -> JsonFence(body)
    [] wrap = "bare" -> BareFence(body)
    [] OTHER -> body

\* the service writes its answer
Respond ==
  /\ pPhase = "value"
  /\ pText' = Wrapped(pWrap, IF pLayout = "pretty" THEN StringifyPretty(pValue)
                              ELSE Stringify(pValue))
  /\ pPhase' = "text"
  /\ UNCHANGED <<pValue, pLayout, pWrap, pOut, server, client, quiz>>

\* responseText.replace(...).trim()
Clean ==
  /\ pPhase = "text"
  /\ pText' = CleanText(pText)
  /\ pPhase' = "cleaned"
  /\ UNCHANGED <<pValue, pLayout, pWrap, pOut, server, client, quiz>>

\* JSON.parse(cleanedText)
Parse ==
  /\ pPhase = "cleaned"
  /\ pOut' = JSONParse(pText)
  /\ pPhase' = "parsed"
  /\ UNCHANGED <<pValue, pLayout, pWrap, pText, server, client, quiz>>

NextParser == Respond \/ Clean \/ Parse

SpecParser == InitParser /\ [][NextParser]_vars

\* ------------------------------------------------------------- quiz
\* MCQQuiz: fetchMCQs (lines 31-75) and the handlers of the quiz screens.
\* An unanswered question's entry of selectedAnswers is null, written <<>>.
Options == {"A", "B"}

\* mcq.correctAnswer, undefined when the record has no such field
CorrectAnswer(tok) ==
  IF "correctAnswer" \notin Fields(tok) THEN <<>>
  ELSE IF tok = "q2" THEN <<"B">>
  ELSE <<"A">>

\* the body of a get-mcqs answer: the stored value, or the error object
ErrorBody == [kind |-> "object", items |-> <<>>]
GetMcqsBody == IF GetMcqs.code = 200 THEN GetMcqs.mcqs[1] ELSE ErrorBody

\* data.map(mcq => shuffleArray(mcq.options)) returns: data is an array and
\* every element has options to spread
Maps(data) ==
  /\ data.kind = "array"
  /\ \A i \in 1..Len(data.items) : "options" \in Fields(data.items[i])

Loading(pc) == [ClosedQuiz EXCEPT !.pc = pc]

\* the quiz with nothing loaded: the outer catch only clears loading
NothingLoaded == [ClosedQuiz EXCEPT !.pc = "shown"]

\* lines 59-67, or the outer catch when data.map throws
Loaded(data) ==
  IF Maps(data)
    THEN [pc |-> "shown", mcqs |-> data.items, currentQuestion |-> 0,
          selectedAnswers |-> [i \in 1..Len(data.items) |-> <<>>],
          marks |-> 0]
    ELSE NothingLoaded

\* a question is on the screen
OnQuestion ==
  /\ quiz.pc = "shown"
  /\ quiz.mcqs # <<>>
  /\ quiz.currentQuestion < Len(quiz.mcqs)

\* the "Quiz Completed!" screen is shown
OnCompleted ==
  /\ quiz.pc = "shown"
  /\ quiz.mcqs # <<>>
  /\ quiz.currentQuestion >= Len(quiz.mcqs)

\* the quiz page is opened: the effect calls fetchMCQs
QuizOpens ==
  /\ quiz.pc = "closed"
  /\ quiz' = Loading("status")
  /\ UNCHANGED <<server, harness, client>>

\* GET /api/process-pdf answers: the registry's result, or the fallback
QuizStatus ==
  /\ quiz.pc = "status"
  /\ quiz' = IF GET.status = "completed" /\ IsNonEmptyArray(GET.mcqs)
               THEN Loaded(GET.mcqs)
               ELSE Loading("getMcqs")
  /\ UNCHANGED <<server, harness, client>>

\* a fetch inside the inner try rejects: the inner catch asks get-mcqs
QuizStatusFails ==
  /\ quiz.pc \in {"status", "getMcqs"}
  /\ quiz' = Loading("getMcqsCatch")
  /\ UNCHANGED <<server, harness, client>>

\* GET /api/get-mcqs answers; its status code is not looked at
QuizGetMcqs ==
  /\ quiz.pc \in {"getMcqs", "getMcqsCatch"}
  /\ quiz' = Loaded(GetMcqsBody)
  /\ UNCHANGED <<server, harness, client>>

\* the fetch of the inner catch rejects: the outer catch
QuizGetMcqsFails ==
  /\ quiz.pc = "getMcqsCatch"
  /\ quiz' = NothingLoaded
  /\ UNCHANGED <<server, harness, client>>

\* variant: an answered question can be answered again
handleAnswerSelectUnguarded(option) ==
  /\ OnQuestion
  /\ LET i == quiz.currentQuestion + 1
     IN  quiz' = [quiz EXCEPT
                    !.selectedAnswers[i] = <<option>>,
                    !.marks = IF <<option>> = CorrectAnswer(quiz.mcqs[i])
                                THEN @ + 1 ELSE @]
  /\ UNCHANGED <<server, harness, client>>

handleAnswerSelect(option) ==
  /\ OnQuestion
  /\ LET i == quiz.currentQuestion + 1
     IN  /\ quiz.selectedAnswers[i] = <<>>
         /\ quiz' = [quiz EXCEPT
                       !.selectedAnswers[i] = <<option>>,
                       !.marks = IF <<option>> = CorrectAnswer(quiz.mcqs[i])
                                   THEN @ + 1 ELSE @]
  /\ UNCHANGED <<server, harness, client>>

\* "Next Question" or "Finish Quiz"
handleNextQuestion ==
  /\ OnQuestion
  /\ quiz' = [quiz EXCEPT !.currentQuestion = @ + 1]
  /\ UNCHANGED <<server, harness, client>>

\* "Previous", disabled on the first question
handlePreviousQuestion ==
  /\ OnQuestion
  /\ quiz.currentQuestion # 0
  /\ quiz' = [quiz EXCEPT !.currentQuestion = @ - 1]
  /\ UNCHANGED <<server, harness, client>>

\* a button of the question navigation: shown for the answered questions,
\* the current one and the first
Jump(idx) ==
  /\ OnQuestion
  /\ idx < Len(quiz.mcqs)
  /\ \/ quiz.selectedAnswers[idx + 1] # <<>>
     \/ quiz.currentQuestion = idx
     \/ idx = 0
  /\ quiz' = [quiz EXCEPT !.currentQuestion = idx]
  /\ UNCHANGED <<server, harness, client>>

\* "Review Questions"
Review ==
  /\ OnCompleted
  /\ quiz' = [quiz EXCEPT !.currentQuestion = 0]
  /\ UNCHANGED <<server, harness, client>>

\* "Start New Quiz": window.location.reload() mounts the page anew
Reload ==
  /\ OnCompleted
  /\ quiz' = Loading("status")
  /\ UNCHANGED <<server, harness, client>>

\* the Back link of the question screen
QuizLeaves ==
  /\ OnQuestion
  /\ quiz' = ClosedQuiz
  /\ UNCHANGED <<server, harness, client>>

fetchMCQs ==
  \/ QuizOpens \/ QuizStatus \/ QuizStatusFails
  \/ QuizGetMcqs \/ QuizGetMcqsFails

\* The server with the quiz page: generations in both modes, and the quiz
\* opened, loaded and left at any time.
NextLoad == Next \/ fetchMCQs \/ QuizLeaves

SpecLoad == Init /\ [][NextLoad]_vars

\* The quiz alone, over what the two stores can hold once the server is at
\* rest.  The runner stores whatever value parsed; the synchronous path
\* stores non-empty arrays only and leaves the registry alone.
StoredValues == ParserValues \cup {Null}

Registries ==
  {IdleState, FailedRecord(IdleState, ParseFailure)}
    \cup {CompletedRecord(IdleState, v) : v \in StoredValues}

Stores == {<<>>} \cup {<<v>> : v \in StoredValues}

\* a completed run stored its value in both; only a later synchronous
\* success, or a later run, writes global.mcqs again
AtRest(ps, store) ==
  ps.status = "completed"
    => \/ store = <<ps.mcqs>>
       \/ store # <<>> /\ IsNonEmptyArray(store[1])

\* no request and no run is under way; the runs' history is not kept
InitQuiz ==
  /\ processingState \in Registries
  /\ globalMcqs \in Stores
  /\ AtRest(processingState, globalMcqs)
  /\ req = [r \in Requests |-> IdleReq]
  /\ runner = [r \in Requests |-> IdleRunner]
  /\ now = 1
  /\ finished = 0
  /\ lastRun = NoRun
  /\ ended = [keep |-> FALSE, runs |-> <<>>]
  /\ HarnessIdle
  /\ InitClient

NextQuiz ==
  \/ fetchMCQs
  \/ \E option \in Options : handleAnswerSelect(option)
  \/ handleNextQuestion \/ handlePreviousQuestion
  \/ \E idx \in 0..(MaxRecords - 1) : Jump(idx)
  \/ Review \/ Reload \/ QuizLeaves

SpecQuiz == InitQuiz /\ [][NextQuiz]_vars

\* ------------------------------------------------------------- claims
\* A form carrying a document, a non-empty credential and the polling flag.
ValidPollingForm(f) ==
  f.file = <<"pdf">> /\ f.apiKey = <<"key">> /\ f.withPolling = <<"true">>

\* The handler of request r gets its form and runs in this step.
Handled(r) == req[r].pc = "formData" /\ req'[r].pc # "formData"

Accepted(r) == req[r].resp.msg = "PDF processing started"
Rejected(r) == req[r].resp.msg = "Another PDF is currently being processed"
InFlight(r) == runner[r].pc \in {"arrayBuffer", "generate", "response"}
Started == {r \in Requests : runner[r].pc # "none"}

\* C1: a polling-mode submission with a document and a non-empty credential
\* that is handled while the registry is processing leaves the registry and
\* the stored result as they are, starts no runner, is answered with the busy
\* response, and is not kept for later: it never gets a runner.
C1_BusyLeavesRegistry ==
  /\ [][\A r \in Requests :
          (/\ Handled(r)
           /\ ValidPollingForm(req[r].form)
           /\ processingState.status = "processing")
          => /\ processingState' = processingState
             /\ globalMcqs' = globalMcqs
             /\ runner' = runner
             /\ req'[r].pc = "done"
             /\ req'[r].resp.code = 200
             /\ req'[r].resp.body = "processing"
             /\ req'[r].resp.msg = "Another PDF is currently being processed"]_vars
  /\ [](\A r \in Requests : Rejected(r) => runner[r].pc = "none")

C1_Witness ==
  \E r \in Requests :
    /\ Rejected(r)
    /\ req[r].seen = "processing"
    /\ processingState.status = "processing"

\* C2: a polling-mode submission with a document and a non-empty credential
\* that is handled while the registry is idle, completed or failed writes the
\* registry over with processing, an empty result, no error and the current
\* time as startTime, starts exactly one runner (its own) and is answered with
\* the acceptance response.
C2_AcceptResetsRegistry ==
  [][\A r \in Requests :
       (/\ Handled(r)
        /\ ValidPollingForm(req[r].form)
        /\ processingState.status \in {"idle", "completed", "failed"})
       => /\ processingState'.status = "processing"
          /\ processingState'.mcqs = EmptyArr
          /\ processingState'.error = <<>>
          /\ processingState'.startTime = <<now>>
          /\ r \notin Started
          /\ Started' = Started \cup {r}
          /\ InFlight(r)'
          /\ \A o \in Requests \ {r} : runner'[o] = runner[o]
          /\ req'[r].pc = "done"
          /\ req'[r].resp.code = 200
          /\ req'[r].resp.body = "processing"
          /\ req'[r].resp.msg = "PDF processing started"]_vars

C2_Witness ==
  \E r1, r2 \in Requests :
    /\ Accepted(r1) /\ req[r1].seen = "idle"
    /\ Accepted(r2) /\ req[r2].seen \in {"completed", "failed"}
    /\ processingState.status = "processing"
    /\ processingState.startTime = <<now>>
    /\ now > 1

\* C3: of two valid polling-mode submissions handled with no background run
\* ending in between, at most one is accepted; when the registry was not
\* processing for one of them, exactly one is accepted and the other gets the
\* busy response.
C3_ExactlyOneAccepted ==
  \A r1, r2 \in Requests :
    (/\ r1 # r2
     /\ Accepted(r1) \/ Rejected(r1)
     /\ Accepted(r2) \/ Rejected(r2)
     /\ req[r1].epoch = req[r2].epoch)
    => /\ ~(Accepted(r1) /\ Accepted(r2))
       /\ (req[r1].seen # "processing" \/ req[r2].seen # "processing")
            => \/ Accepted(r1) /\ Rejected(r2)
               \/ Rejected(r1) /\ Accepted(r2)

C3_Witness ==
  \E r1, r2 \in Requests :
    /\ r1 # r2
    /\ req[r1].epoch = req[r2].epoch
    /\ Accepted(r1) /\ req[r1].seen # "processing"
    /\ Rejected(r2)
    /\ InFlight(r1)

\* C4 as stated: at most one call to the generation service is in flight, the
\* calls of synchronous-mode submissions included.
C4_AtMostOneGeneration ==
  Cardinality({r \in Requests : req[r].pc = "generate"})
    + Cardinality({r \in Requests : runner[r].pc = "generate"}) <= 1

\* C4 amended: at most one background job (the run of an accepted
\* polling-mode submission) exists at any moment; synchronous-mode
\* submissions are not admitted through the registry.
C4_AtMostOneBackgroundJob ==
  Cardinality({r \in Requests : InFlight(r)}) <= 1

C4_Witness ==
  \E r1, r2 \in Requests :
    /\ runner[r1].pc = "generate"
    /\ req[r2].pc = "generate"

\* C5: a run that ended on a fault (a rejected conversion or generation call,
\* a text() that throws, a JSON.parse that throws) has ended, and left the
\* registry failed with an error, an empty result, no progress and no
\* startTime.
C5_FaultEndsInFailed ==
  lastRun.outcome \in {"fault", "parseError"}
    => /\ runner[lastRun.job].pc = "done"
       /\ processingState.status = "failed"
       /\ processingState.error # <<>>
       /\ processingState.mcqs = EmptyArr
       /\ processingState.progress = <<>>
       /\ processingState.startTime = <<>>

C5_Witness ==
  /\ lastRun.outcome = "fault"
  /\ lastRun.fault.message = "quota exceeded"
  /\ finished = 2

\* A value that is a non-empty sequence of records with every required field.
WellFormedValue(v) ==
  /\ v.kind = "array"
  /\ v.items # <<>>
  /\ \A i \in 1..Len(v.items) :
       {"question", "options", "correctAnswer", "explanation"}
         \subseteq Fields(v.items[i])

\* C6 as stated: after a background run ended on a fault of the adapter, the
\* status endpoint reports failed with a non-empty error string: the fault's
\* message when it has one, a non-empty fallback when it has none or an empty
\* one.
C6_FailedWithNonEmptyError ==
  lastRun.outcome = "fault"
    => /\ GET.status = "failed"
       /\ GET.error # <<>>
       /\ GET.error # <<"">>
       /\ lastRun.fault.message # "" => GET.error = <<lastRun.fault.message>>

\* C7: once the adapter has returned the serialization (plain or in a json
\* fence) of a well-formed sequence of records to an accepted job, the run
\* eventually ends, and it ends with the status endpoint reporting completed
\* with exactly those records in that order; as long as the job is in flight
\* the endpoint reports processing.
C7_EventuallyCompleted ==
  /\ \A r \in Requests : (runner[r].pc = "response") ~> (runner[r].pc = "done")
  /\ [][\A r \in Requests : \A s \in WellFormedSeqs :
          (/\ runner[r].pc = "response"
           /\ runner[r].result \in {TextResult(Stringify(Arr(s))),
                                    TextResult(JsonFence(Stringify(Arr(s))))}
           /\ runner'[r].pc # "response")
          => /\ runner'[r].pc = "done"
             /\ GET'.status = "completed"
             /\ GET'.mcqs = Arr(s)]_vars
  /\ [](\A r \in Requests : InFlight(r) => GET.status = "processing")

C7_Witness ==
  /\ lastRun.outcome = "completed"
  /\ GET.status = "completed"
  /\ GET.mcqs = Arr(<<"q2", "q1">>)

\* C8 as stated: the registry is never completed with a result that is an
\* empty sequence, no sequence, or a sequence with an element lacking a
\* required field.
C8_CompletedOnlyWellFormed ==
  processingState.status = "completed" => WellFormedValue(processingState.mcqs)

\* C9 as stated: a synchronous-mode submission is answered 400 with an error
\* when the document or the credential is missing; and when its generation
\* call has returned, {success: true} with the parsed result stored if the
\* text parses into a well-formed sequence, 500 with an error and nothing
\* stored otherwise; a rejected call is answered 500 with an error.
C9_SynchronousAnswers ==
  [][\A r \in Requests :
       /\ (Handled(r) /\ req[r].form.withPolling = <<>>
             /\ (req[r].form.file = <<>> \/ req[r].form.apiKey \in {<<>>, <<"">>}))
            => /\ req'[r].pc = "done"
               /\ req'[r].resp.code = 400
               /\ req'[r].resp.body = "error" /\ req'[r].resp.msg # ""
       /\ (req[r].pc \in {"arrayBuffer", "generate"} /\ req'[r].pc = "done")
            => /\ req'[r].resp.code = 500
               /\ req'[r].resp.body = "error" /\ req'[r].resp.msg # ""
               /\ globalMcqs' = globalMcqs
       /\ (req[r].pc = "response" /\ req'[r].pc = "done")
            => LET res == req[r].result
                   p == JSONParse(CleanText(res.text))
               IN  IF res.fault = <<>> /\ p.ok /\ WellFormedValue(p.val)
                     THEN /\ req'[r].resp.code = 200
                          /\ req'[r].resp.body = "success"
                          /\ globalMcqs' = <<p.val>>
                     ELSE /\ req'[r].resp.code = 500
                          /\ req'[r].resp.body = "error" /\ req'[r].resp.msg # ""
                          /\ globalMcqs' = globalMcqs]_vars

\* C10 as stated: the serialization of a well-formed sequence, plain or in a
\* fence with or without a language tag, parses back to that sequence.
C10_FencedRoundTrip ==
  (pPhase = "parsed" /\ WellFormedValue(pValue))
    => (pOut.ok /\ pOut.val = pValue)

\* C11: the registry a background run leaves is determined by what the
\* generation service gave that run: two ended runs that got the same result,
\* or were rejected with the same fault, left the same registry (status,
\* result, error and every other field), whenever they were started.
C11_SameOutcomeSameTerminal ==
  \A i, j \in 1..Len(ended.runs) :
    (/\ ended.runs[i].result = ended.runs[j].result
     /\ ended.runs[i].fault = ended.runs[j].fault)
    => ended.runs[i].left = ended.runs[j].left

C11_Witness ==
  /\ Len(ended.runs) = 2
  /\ ended.runs[1].result = ended.runs[2].result
  /\ ended.runs[1].result.text # <<>>
  /\ ended.runs[1].started # ended.runs[2].started
  /\ ended.runs[2].left.status = "completed"

\* The callback of timer t resumes in this step with the body of a status
\* response.
Answered(t) == poll[t].pc = "json" /\ poll'[t].pc = "idle"

\* Timer t is set, or one of its callbacks is still running.
Polling(t) == t \in timers \/ poll[t].pc # "idle"

\* C12 as stated: a callback that is answered completed or failed stops the
\* timer that runs it, so that the timer issues no status request afterwards;
\* on completed it schedules the move to the quiz, on failed it shows the
\* error the response carries, or a generic one when it carries none.
C12_StopsAtTerminalResponse ==
  [][\A t \in Requests :
       (Answered(t) /\ poll[t].data.status \in {"completed", "failed"})
       => /\ t \notin timers'
          /\ ~processing'
          /\ poll[t].data.status = "completed" => quizTimer'
          /\ poll[t].data.status = "failed" =>
               /\ error' # <<>> /\ error' # <<"">>
               /\ poll[t].data.error \notin {<<>>, <<"">>}
                    => error' = poll[t].data.error]_vars

\* The callback of timer t resumes in this step in its catch: its status
\* query failed.
QueryFailed(t) == poll[t].pc = "fetch" /\ poll'[t].pc = "idle"

\* t is the only submission of the page so far.
OnlySubmission(t) ==
  sub[t].pc # "none" /\ \A q \in Requests \ {t} : sub[q].pc = "none"

\* C13 as stated: when the status queries of a session keep failing, the
\* poller has stopped and shows an error once four of them have failed in a
\* row.  (With one submission and no query answered since startPolling,
\* retryCount counts the failed queries of the session.)
C13_StopsAfterFourFailures ==
  \A t \in Requests :
    (/\ OnlySubmission(t)
     /\ elapsedTime = 0
     /\ retryCount >= RetryLimit + 1)
    => /\ timers = {}
       /\ ~processing
       /\ error # <<>>

\* C14 as stated: a callback answered processing stops the timer and shows
\* the timeout error when the session's elapsed time has passed 300, and
\* keeps polling until then, with the taking-longer message once the elapsed
\* time has passed 180.
C14_TimeoutCeiling ==
  [][\A t \in Requests :
       (Answered(t) /\ t \in timers /\ poll[t].data.status = "processing")
       => IF elapsedTime' > StopAfter
            THEN /\ t \notin timers'
                 /\ ~processing'
                 /\ error' = <<TimedOut>>
            ELSE /\ t \in timers'
                 /\ processing' = processing
                 /\ error' = error
                 /\ elapsedTime' > WarnAfter
                      <=> progress' = TakingLonger(elapsedTime')]_vars

\* C15 as stated: a failed status query that leaves the failure counter
\* below 3 keeps the timer running and shows the retrying message, whether
\* the fetch was rejected or answered with a code that is not 2xx.
C15_RetriesBelowThreshold ==
  [][\A t \in Requests :
       (QueryFailed(t) /\ t \in timers /\ retryCount' < RetryLimit)
       => /\ t \in timers'
          /\ processing' = processing
          /\ progress'[1] = Retrying]_vars

\* The client stops polling in this step without having been answered
\* completed or failed: on the timeout ceiling, on the exhaustion of the
\* retries, or on Cancel.
StopsEarly ==
  /\ \/ timers' # timers /\ timers' \subseteq timers
     \/ processing /\ ~processing'
  /\ \A t \in Requests :
       ~(Answered(t) /\ poll[t].data.status \in {"completed", "failed"})

\* C16: a step in which the client stops polling on the timeout ceiling, on
\* the exhaustion of the retries or on Cancel changes nothing on the server:
\* the registry, the stored result, the requests and the runners stay as
\* they are (and the run goes on: see the witness).
C16_StopLeavesServer ==
  [][StopsEarly => UNCHANGED <<processingState, globalMcqs, req, runner,
                               finished, lastRun>>]_vars

\* the poller gave up on the timeout while the job was running, and the
\* job completed afterwards
C16_Witness ==
  /\ error = <<TimedOut>>
  /\ timers = {}
  /\ lastRun.outcome = "completed"
  /\ processingState.status = "completed"

\* C17 as stated: whenever the page is not in its processing state, or the
\* component has left the page, no poll timer is set.
C17_TimerReleased ==
  (~processing \/ ~mounted) => timers = {}

\* C18: the step in which a status query is handled changes nothing on the
\* server and gives the callback the registry exactly as it is in that step;
\* a query that has been sent can always be handled.
C18_StatusIsPureRead ==
  /\ [][\A t \in Requests :
          (poll[t].pc = "fetch" /\ poll'[t].pc = "json")
          => /\ poll'[t].data = processingState
             /\ UNCHANGED server]_vars
  /\ [](\A t \in Requests : poll[t].pc = "fetch" => ENABLED Status(t))

\* a callback holds the body of an answer given while the job was running,
\* and the job has completed since
C18_Witness ==
  \E t \in Requests :
    /\ poll[t].pc = "json"
    /\ poll[t].data.status = "processing"
    /\ poll[t].data.progress = <<"Sending to AI model...">>
    /\ processingState.status = "completed"

\* C19: a submission, with or without the polling flag, that has no document
\* or has no credential or an empty one is answered 400 with an error,
\* whatever the registry holds; the registry, the stored result and the
\* runners stay as they are and the handler ends without a generation call.
C19_InvalidInputRefused ==
  [][\A r \in Requests :
       (/\ Handled(r)
        /\ req[r].form.file = <<>> \/ req[r].form.apiKey \in {<<>>, <<"">>})
       => /\ req'[r].pc = "done"
          /\ req'[r].resp.code = 400
          /\ req'[r].resp.body = "error" /\ req'[r].resp.msg # ""
          /\ UNCHANGED <<processingState, globalMcqs, runner>>]_vars

\* a submission was refused next to a job in flight
C19_Witness ==
  \E r1, r2 \in Requests :
    /\ Accepted(r1) /\ InFlight(r1)
    /\ req[r2].resp = ApiKeyRequired
    /\ processingState.status = "processing"

\* handleSubmit of submission r resumes in this step with the answer to its
\* POST.
PostAnswered(r) == sub[r].pc = "fetch" /\ sub'[r].pc \in {"polling", "failed"}

\* C20: a polling-mode submission with a document and a credential is
\* answered 200 with status processing, accepted or not; and when handleSubmit
\* resumes with either answer it starts polling: it sets a timer, whose
\* handle the component holds.
C20_BothAnswersStartPolling ==
  /\ [][\A r \in Requests :
          (Handled(r) /\ ValidPollingForm(req[r].form))
          => /\ req'[r].resp.code = 200
             /\ req'[r].resp.body = "processing"
             /\ Accepted(r)' \/ Rejected(r)']_vars
  /\ [][\A r \in Requests :
          (PostAnswered(r) /\ (Accepted(r) \/ Rejected(r)))
          => /\ sub'[r].pc = "polling"
             /\ r \in timers'
             /\ pollInterval' = <<r>>]_vars

\* after the busy answer the poller is polling, and is answered with the
\* state of the job of the earlier submission
C20_Witness ==
  \E r1, r2 \in Requests :
    /\ Accepted(r1) /\ InFlight(r1)
    /\ Rejected(r2) /\ sub[r2].pc = "polling"
    /\ r2 \in timers
    /\ poll[r2].pc = "json"
    /\ poll[r2].data.status = "processing"

\* The background run of job r ends in this step and leaves the registry
\* completed.
RunCompleted(r) ==
  /\ runner[r].pc = "response" /\ runner'[r].pc = "done"
  /\ processingState'.status = "completed"

\* The synchronous-mode submission r is answered {success: true} in this step.
SyncSucceeded(r) ==
  /\ req[r].pc = "response" /\ req'[r].pc = "done"
  /\ req'[r].resp = Success

\* C21 as stated: the result endpoint answers 404 "No MCQs found" when the
\* process starts; a step in which a generation completes (a background run
\* leaves the registry completed, or a synchronous submission is answered
\* success) makes it return the result of that generation; and no other
\* step, the end of a failed job included, changes what it returns.
C21_ReturnsLatestCompleted ==
  /\ GetMcqs = NoMcqsFound
  /\ [][/\ \A r \in Requests :
            RunCompleted(r) => GetMcqs' = Found(processingState'.mcqs)
        /\ \A r \in Requests :
            SyncSucceeded(r)
              => GetMcqs' = Found(ParseResponse(req[r].result.text).val)
        /\ (\A r \in Requests : ~RunCompleted(r) /\ ~SyncSucceeded(r))
              => GetMcqs' = GetMcqs]_vars

\* C22: the fields of the registry match its status: the result is empty
\* unless the status is completed, there is no error unless it is failed,
\* and there is no progress label and no startTime unless it is processing.
C22_FieldsMatchStatus ==
  /\ processingState.mcqs # EmptyArr => processingState.status = "completed"
  /\ processingState.error # <<>> => processingState.status = "failed"
  /\ processingState.progress # <<>> => processingState.status = "processing"
  /\ processingState.startTime # <<>> => processingState.status = "processing"

\* a job was accepted over the registry a completed job had left with two
\* records, and is running
C22_Witness ==
  \E r1, r2 \in Requests :
    /\ Accepted(r1) /\ Accepted(r2)
    /\ req[r2].seen = "completed"
    /\ globalMcqs = <<Arr(<<"q1", "q2">>)>>
    /\ processingState =
         [status |-> "processing", mcqs |-> EmptyArr, error |-> <<>>,
          startTime |-> <<now>>, progress |-> <<"Sending to AI model...">>]

Terminal(ps) == ps.status \in {"completed", "failed"}

\* C23: a registry that is completed or failed changes only in a step in
\* which a polling-mode submission is accepted: no step of a runner, of a
\* synchronous-mode submission or of a refused submission changes it.
C23_TerminalUntilAccepted ==
  [][(Terminal(processingState) /\ processingState' # processingState)
       => \E r \in Requests :
            /\ Handled(r)
            /\ ValidPollingForm(req[r].form)
            /\ Accepted(r)'
            /\ processingState'.status = "processing"]_vars

\* a synchronous-mode submission stored its result after the job had
\* completed, and the registry still holds the result of the job
C23_Witness ==
  \E r1, r2 \in Requests :
    /\ Accepted(r1) /\ runner[r1].pc = "done"
    /\ req[r2].resp = Success
    /\ globalMcqs = <<Arr(<<"q1", "q2">>)>>
    /\ processingState = CompletedRecord(IdleState, Arr(<<"q2", "q1">>))

\* C24 as stated: a registry that is processing eventually becomes completed
\* or failed, whatever the generation service does, never answering
\* included.
C24_EventuallyTerminal ==
  (processingState.status = "processing") ~> Terminal(processingState)

\* The handler of the polling-mode submission r accepts it in this step.
Accepts(r) == Handled(r) /\ Accepted(r)'

\* C25 as stated: the acceptance of a polling-mode submission leaves the
\* registry processing with an empty result, no error, the current time as
\* startTime and no progress label.
C25_AcceptedWithoutLabel ==
  [][\A r \in Requests :
       Accepts(r)
       => processingState' =
            [status |-> "processing", mcqs |-> EmptyArr, error |-> <<>>,
             startTime |-> <<now>>, progress |-> <<>>]]_vars

\* C25 amended: the acceptance leaves the registry processing with an empty
\* result, no error, the current time as startTime and the label
\* "Converting PDF...", which the runner has put in place of the label
\* "Starting PDF processing..." of the reset before the handler returns; a
\* processing registry always carries a label.
C25_AcceptedWithLabel ==
  /\ [][\A r \in Requests :
          Accepts(r)
          => /\ ProcessingRecord(now).progress = <<"Starting PDF processing...">>
             /\ processingState' =
                  [status |-> "processing", mcqs |-> EmptyArr, error |-> <<>>,
                   startTime |-> <<now>>, progress |-> <<"Converting PDF...">>]
             /\ runner'[r].pc = "arrayBuffer"]_vars
  /\ [](processingState.status = "processing"
          => /\ processingState.progress # <<>>
             /\ \E r \in Requests : InFlight(r))

\* a submission was accepted at time 2 and its runner has not resumed yet
C25_Witness ==
  \E r \in Requests :
    /\ Accepted(r) /\ runner[r].pc = "arrayBuffer"
    /\ now = 2
    /\ processingState.startTime = <<2>>
    /\ processingState.progress = <<"Converting PDF...">>

\* how far a background run has come
Phase(pc) ==
  CASE pc = "none" -> 0
    [] pc = "arrayBuffer" -> 1
    [] pc = "generate" -> 2
    [] pc = "response" -> 3
    [] OTHER -> 4

\* The runner of job r calls the generation service in this step.
Calls(r) == runner[r].pc # "generate" /\ runner'[r].pc = "generate"

\* C26: a background run only moves forward, one phase at a time or from a
\* rejected call to its end, so that it calls the generation service at most
\* once and never starts again; the run that calls belongs to an accepted
\* submission, and a submission answered busy or refused as invalid has no
\* run.
C26_SingleShot ==
  /\ [][\A r \in Requests :
          /\ Phase(runner'[r].pc) >= Phase(runner[r].pc)
          /\ Calls(r) => Phase(runner[r].pc) = 1 /\ Accepted(r)
          /\ (Phase(runner[r].pc) >= 2 /\ runner'[r] # runner[r])
               => Phase(runner'[r].pc) > Phase(runner[r].pc)]_vars
  /\ [](\A r \in Requests :
          (Rejected(r) \/ req[r].resp.code = 400) => runner[r].pc = "none")

\* the call of one job was rejected, its run has ended, and the job of a
\* later submission is calling the service
C26_Witness ==
  \E r1, r2 \in Requests :
    /\ runner[r1].pc = "done"
    /\ Accepted(r2) /\ req[r2].seen = "failed"
    /\ runner[r2].pc = "generate"
    /\ lastRun.job = r2

\* C27: in the step in which the run of job r starts, the handler of r
\* returns the acceptance response; the registry is processing then and the
\* run has not called the generation service yet.  No later step of the run
\* touches the request.
C27_AnswersBeforeRun ==
  [][\A r \in Requests :
       /\ (runner[r].pc = "none" /\ runner'[r].pc # "none")
            => /\ req'[r].pc = "done"
               /\ req'[r].resp = ProcessingStarted
               /\ processingState'.status = "processing"
               /\ runner'[r].pc = "arrayBuffer"
       /\ (InFlight(r) /\ runner'[r] # runner[r]) => req' = req]_vars

\* the acceptance response was given at time 1; at time 2 the call of the
\* job is still pending
C27_Witness ==
  \E r \in Requests :
    /\ req[r].pc = "done"
    /\ req[r].resp = ProcessingStarted
    /\ runner[r].pc = "generate"
    /\ processingState.startTime = <<1>>
    /\ now = 2

\* C28 as stated: in a session that is the only one of the page, a status
\* query that fails adds one to retryCount and a status response that
\* arrives sets it to 0.
C28_CountsConsecutiveFailures ==
  [][\A t \in Requests :
       OnlySubmission(t)
       => /\ QueryFailed(t) => retryCount' = retryCount + 1
          /\ Answered(t) => retryCount' = 0]_vars

\* C29 as stated: at most one interval is set, and an interval that is set
\* is the one pollInterval refers to.
C29_AtMostOneTimer ==
  /\ Cardinality(timers) <= 1
  /\ \A t \in timers : pollInterval = <<t>>

\* C30 as stated: when the callback of a timer that has been cleared resumes
\* with a status response, it changes nothing on the page: no move to the
\* quiz is scheduled, and the error, the progress label and the processing
\* state stay as they are.  (With one submission, so that no other timer is
\* involved.)
C30_LateResponseIgnored ==
  [][\A t \in Requests :
       (/\ OnlySubmission(t)
        /\ Answered(t)
        /\ t \notin timers)
       => UNCHANGED <<quizTimer, error, progress, processing>>]_vars

\* C31 as stated: a session shows the timeout error only when its own
\* elapsed time, counted from 0 by its answered queries, has passed 300, and
\* the connectivity error only when its own failed queries, counted from 0,
\* have reached the threshold; whatever the page held when it started.
\* (With one submission since the page was as EarlierSessions gives it.)
C31_OwnCounters ==
  [][\A t \in Requests :
       OnlySubmission(t)
       => /\ (Answered(t) /\ error' = <<TimedOut>> /\ error # <<TimedOut>>)
               => elapsedTime' > StopAfter
          /\ (QueryFailed(t) /\ error' = <<Unreachable>>
                /\ error # <<Unreachable>>)
               => retryCount' >= RetryLimit]_vars

\* C32 as stated: whenever the registry is completed, the store the result
\* endpoint reads holds the result the registry holds.
C32_StoresAgree ==
  processingState.status = "completed"
    => globalMcqs = <<processingState.mcqs>>

\* Every successful generation, in either mode, stores its result in
\* global.mcqs (lines 161 and 250), so what global.mcqs holds is the result
\* of the generation that completed successfully most recently.
\* C33 as stated: when the quiz page gets its answer and shows the quiz, and
\* the most recent successful generation left a well-formed result set, the
\* questions shown are that result set.
C33_LoadsLatestResult ==
  [][((QuizStatus \/ QuizGetMcqs)
        /\ quiz'.pc = "shown"
        /\ globalMcqs # <<>>
        /\ WellFormedValue(globalMcqs[1]))
       => quiz'.mcqs = globalMcqs[1].items]_vars

\* the questions with a recorded answer, and those whose recorded answer is
\* their correctAnswer
QuizAnswered ==
  {i \in 1..Len(quiz.selectedAnswers) : quiz.selectedAnswers[i] # <<>>}
QuizCorrect ==
  {i \in QuizAnswered : quiz.selectedAnswers[i] = CorrectAnswer(quiz.mcqs[i])}

ScoreCounted ==
  /\ Len(quiz.selectedAnswers) = Len(quiz.mcqs)
  /\ \A i \in 1..Len(quiz.selectedAnswers) :
       quiz.selectedAnswers[i] = <<>>
         \/ \E option \in Options : quiz.selectedAnswers[i] = <<option>>
  /\ quiz.marks = Cardinality(QuizCorrect)
  /\ quiz.marks <= Cardinality(QuizAnswered)

AnswersKept ==
  (quiz.pc = "shown" /\ quiz'.pc = "shown")
    => /\ quiz'.mcqs = quiz.mcqs
       /\ \A i \in QuizAnswered :
            quiz'.selectedAnswers[i] = quiz.selectedAnswers[i]

\* C34 as stated: in the quiz, whatever answers were selected and however
\* the questions were walked through (next, previous, jump, review), every
\* question has at most one recorded answer, the score is the number of
\* questions whose recorded answer is their correctAnswer and is at most the
\* number of answered questions, and a recorded answer never changes.
C34_ScoreCountsCorrectAnswers == []ScoreCounted /\ [][AnswersKept]_vars

\* both questions of a two-question quiz are answered, one of them
\* correctly, and the first question is on the screen again
C34_Witness ==
  /\ quiz.pc = "shown"
  /\ quiz.mcqs = <<"q1", "q2">>
  /\ quiz.selectedAnswers = <<<<"A">>, <<"A">>>>
  /\ quiz.marks = 1
  /\ quiz.currentQuestion = 0

====
